---- MODULE Spec2Model ----
(***************************************************************************)
(* A model of the RAG demo: the Streamlit shell (stmain.py), the document  *)
(* loader/splitter (pysrc/document_processor.py) and the index builder     *)
(* (pysrc/embeddings_manager.py).                                          *)
(*                                                                         *)
(* Texts and file names are sequences of one-character strings.  The       *)
(* splitter's sizes are scaled down (chunk_size 1000 -> 5, chunk_overlap   *)
(* 200 -> 1, the source's 5:1 ratio).                                      *)
(***************************************************************************)
EXTENDS Naturals, Sequences, FiniteSets

VARIABLES
    rag_engine,      \* st.session_state.rag_engine: None or the engine
    chat_history,    \* st.session_state.chat_history
    doc_stats,       \* st.session_state.doc_stats
    database,        \* the Chroma collection persisted under "database"
    outcome,         \* what the last handler run did and showed
    last_documents,  \* the chunk list of the last successful process_files
    saved_settings,  \* the values last saved with "Settings updated!", if any
    arg,             \* the input of a library-level call (pure-function specs)
    ret              \* its result

vars == << rag_engine, chat_history, doc_stats, database, outcome,
           last_documents, saved_settings, arg, ret >>

session_vars == << rag_engine, chat_history, doc_stats, database, outcome,
                   last_documents, saved_settings >>

Min(a, b) == IF a <= b THEN a ELSE b

\* ------------------------------------------------------------------------
\* Text helpers
\* ------------------------------------------------------------------------

NL == "\n"

\* the characters str.strip() removes (those of the model's alphabet)
Whitespace == {" ", NL}

RECURSIVE lstrip(_)
lstrip(t) ==
    IF t # <<>> /\ Head(t) \in Whitespace THEN lstrip(Tail(t)) ELSE t

RECURSIVE rstrip(_)
rstrip(t) ==
    IF t # <<>> /\ t[Len(t)] \in Whitespace
    THEN rstrip(SubSeq(t, 1, Len(t) - 1))
    ELSE t

\* str.strip()
strip(t) == rstrip(lstrip(t))

\* str.endswith(suffix)
endswith(s, suffix) ==
    /\ Len(s) >= Len(suffix)
    /\ SubSeq(s, Len(s) - Len(suffix) + 1, Len(s)) = suffix

\* the first index at which sep occurs in t, or 0 (re.search)
Find(t, sep) ==
    LET hits == { i \in 1..(Len(t) - Len(sep) + 1) :
                     SubSeq(t, i, i + Len(sep) - 1) = sep }
    IN  IF hits = {} THEN 0 ELSE CHOOSE i \in hits : \A j \in hits : i <= j

\* "".join(docs)
RECURSIVE Concat(_)
Concat(ss) == IF ss = <<>> THEN <<>> ELSE Head(ss) \o Concat(Tail(ss))

NonEmpty(s) == s # <<>>

\* ------------------------------------------------------------------------
\* RecursiveCharacterTextSplitter, as configured at
\* document_processor.py:37-42 (keep_separator and strip_whitespace at
\* their defaults, True)
\* ------------------------------------------------------------------------

chunk_size == 5

chunk_overlap == 1

separators ==
    << <<NL, NL>>, <<NL>>, <<".">>, <<"!">>, <<"?">>, <<",">>, <<" ">> >>

\* re.split(sep, t): the segments between the leftmost non-overlapping
\* occurrences of sep
RECURSIVE re_split(_, _)
re_split(t, sep) ==
    LET i == Find(t, sep)
    IN  IF i = 0 THEN << t >>
        ELSE << SubSeq(t, 1, i - 1) >>
             \o re_split(SubSeq(t, i + Len(sep), Len(t)), sep)

\* _split_text_with_regex(text, separator, keep_separator=True): every
\* segment but the first keeps the separator in front of it; empty pieces
\* are dropped
split_text_with_regex(t, sep) ==
    LET segs == re_split(t, sep)
        pieces == [ i \in 1..Len(segs) |->
                        IF i = 1 THEN segs[1] ELSE sep \o segs[i] ]
    IN  SelectSeq(pieces, NonEmpty)

\* TextSplitter._join_docs(docs, ""): the stripped concatenation, as a list
\* of zero (nothing left) or one chunk
join_docs(docs) ==
    LET text == strip(Concat(docs))
    IN  IF text = <<>> THEN <<>> ELSE << text >>

\* the "while total > overlap or (total + len > chunk_size and total > 0)"
\* loop of _merge_splits: pops pieces off the front of current_doc
RECURSIVE pop_overlap(_, _, _)
pop_overlap(current_doc, total, len) ==
    IF total > chunk_overlap \/ (total + len > chunk_size /\ total > 0)
    THEN pop_overlap(Tail(current_doc), total - Len(Head(current_doc)), len)
    ELSE [ current_doc |-> current_doc, total |-> total ]

\* the body of _merge_splits' for loop, from piece i on
RECURSIVE merge_loop(_, _, _, _, _)
merge_loop(splits, i, docs, current_doc, total) ==
    IF i > Len(splits) THEN docs \o join_docs(current_doc)
    ELSE LET d == splits[i]
             len == Len(d)
             flush == total + len > chunk_size /\ current_doc # <<>>
             docs1 == IF flush THEN docs \o join_docs(current_doc) ELSE docs
             kept == IF flush THEN pop_overlap(current_doc, total, len)
                     ELSE [ current_doc |-> current_doc, total |-> total ]
         IN  merge_loop(splits, i + 1, docs1,
                        Append(kept.current_doc, d), kept.total + len)

\* TextSplitter._merge_splits(splits, separator=""): pieces shorter than
\* chunk_size are packed into chunks of at most chunk_size characters
merge_splits(splits) == merge_loop(splits, 1, <<>>, <<>>, 0)

\* the first separator of seps that occurs in t, or 0
first_separator(t, seps) ==
    LET hits == { i \in 1..Len(seps) : Find(t, seps[i]) # 0 }
    IN  IF hits = {} THEN 0 ELSE CHOOSE i \in hits : \A j \in hits : i <= j

RECURSIVE split_text_rec(_, _)
RECURSIVE split_loop(_, _, _, _, _)

\* the for loop of RecursiveCharacterTextSplitter._split_text over the
\* pieces: short pieces are collected and merged, a piece of chunk_size or
\* more is split by the remaining separators, or kept whole when none is
\* left
split_loop(splits, i, good_splits, final_chunks, new_separators) ==
    IF i > Len(splits)
    THEN IF good_splits # <<>>
         THEN final_chunks \o merge_splits(good_splits)
         ELSE final_chunks
    ELSE LET s == splits[i]
         IN  IF Len(s) < chunk_size
             THEN split_loop(splits, i + 1, Append(good_splits, s),
                             final_chunks, new_separators)
             ELSE LET merged == IF good_splits # <<>>
                                THEN final_chunks \o merge_splits(good_splits)
                                ELSE final_chunks
                      other == IF new_separators = <<>> THEN << s >>
                               ELSE split_text_rec(s, new_separators)
                  IN  split_loop(splits, i + 1, <<>>, merged \o other,
                                 new_separators)

\* RecursiveCharacterTextSplitter._split_text(text, separators)
split_text_rec(t, seps) ==
    LET i == first_separator(t, seps)
        separator == IF i = 0 THEN seps[Len(seps)] ELSE seps[i]
        new_separators == IF i = 0 THEN <<>>
                          ELSE SubSeq(seps, i + 1, Len(seps))
    IN  split_loop(split_text_with_regex(t, separator), 1, <<>>, <<>>,
                   new_separators)

\* RecursiveCharacterTextSplitter.split_text(text)
split_text(t) == split_text_rec(t, separators)

\* self.text_splitter.split_documents([doc]): one Document per chunk, each
\* with a copy of the document's metadata
split_documents(doc) ==
    LET chunks == split_text(doc.page_content)
    IN  [ i \in 1..Len(chunks) |->
            [ page_content |-> chunks[i], metadata |-> doc.metadata ] ]

\* ------------------------------------------------------------------------
\* DocumentProcessor.load_and_split_documents
\* ------------------------------------------------------------------------

\* A file of the directory: its name, its content, and whether reading it
\* raises (fault "read": open, read or the UTF-8 decoding fails; "none": it
\* reads).

\* what one file adds to documents (the body of the for loop, lines 63-94)
file_documents(f) ==
    IF ~endswith(f.name, << ".", "t", "x", "t" >>) THEN <<>>
    ELSE IF f.fault = "read" THEN <<>>
    ELSE IF strip(f.text) = <<>> THEN <<>>
    ELSE split_documents([ page_content |-> f.text,
                           metadata |-> [ source |-> f.name ] ])

\* load_loop with the per-file try/except left out: a file that fails to
\* read ends the loop with nothing loaded
RECURSIVE load_loop_abort(_, _, _)
load_loop_abort(files, i, documents) ==
    IF i > Len(files) THEN documents
    ELSE IF endswith(files[i].name, << ".", "t", "x", "t" >>)
            /\ files[i].fault = "read"
    THEN <<>>
    ELSE load_loop_abort(files, i + 1, documents \o file_documents(files[i]))

\* the for loop over os.listdir(directory_path), from file i on
RECURSIVE load_loop(_, _, _)
load_loop(files, i, documents) ==
    IF i > Len(files) THEN documents
    ELSE load_loop(files, i + 1, documents \o file_documents(files[i]))

\* load_and_split_documents with the "if not documents" check left out
load_and_split_documents_unchecked(dir) ==
    IF ~dir.exists
    THEN [ status |-> "ValueError", message |-> "Directory not found",
           documents |-> <<>> ]
    ELSE [ status |-> "ok", message |-> "",
           documents |-> load_loop(dir.files, 1, <<>>) ]

load_and_split_documents(dir) ==
    IF ~dir.exists
    THEN [ status |-> "ValueError", message |-> "Directory not found",
           documents |-> <<>> ]
    ELSE LET documents == load_loop(dir.files, 1, <<>>)
         IN  IF documents = <<>>
             THEN [ status |-> "ValueError",
                    message |-> "No valid documents found or all documents were empty",
                    documents |-> <<>> ]
             ELSE [ status |-> "ok", message |-> "", documents |-> documents ]

\* ------------------------------------------------------------------------
\* EmbeddingsManager.create_vector_store
\* ------------------------------------------------------------------------

\* Chroma.from_documents(documents, embedding, persist_directory): opens the
\* collection persisted in persist_directory (get-or-create, the default
\* collection name) and adds the documents to it under fresh ids.  db is the
\* collection's content before the call.
Chroma_from_documents(documents, db) == db \o documents

\* create_vector_store with the "if not documents" check left out
create_vector_store_unchecked(documents, db, embed_ok) ==
    IF ~embed_ok
    THEN [ status |-> "Exception", message |-> "embedding failed",
           database |-> db, embed_calls |-> 1 ]
    ELSE [ status |-> "ok", message |-> "",
           database |-> Chroma_from_documents(documents, db),
           embed_calls |-> 1 ]

\* create_vector_store inserting the chunks before their embedding fails
create_vector_store_insert_first(documents, db, embed_ok) ==
    IF documents = <<>>
    THEN [ status |-> "ValueError", message |-> "No documents provided",
           database |-> db, embed_calls |-> 0 ]
    ELSE [ status |-> IF embed_ok THEN "ok" ELSE "Exception",
           message |-> IF embed_ok THEN "" ELSE "embedding failed",
           database |-> Chroma_from_documents(documents, db),
           embed_calls |-> 1 ]

\* embed_ok: whether the embedding call succeeds; it runs before anything is
\* inserted.  embed_calls counts the calls of the embedding model.
create_vector_store(documents, db, embed_ok) ==
    IF documents = <<>>
    THEN [ status |-> "ValueError", message |-> "No documents provided",
           database |-> db, embed_calls |-> 0 ]
    ELSE IF ~embed_ok
    THEN [ status |-> "Exception", message |-> "embedding failed",
           database |-> db, embed_calls |-> 1 ]
    ELSE [ status |-> "ok", message |-> "",
           database |-> Chroma_from_documents(documents, db),
           embed_calls |-> 1 ]

\* ------------------------------------------------------------------------
\* RAGEngine (pysrc/rag_engine.py): its constructor, update_settings and
\* answer_question, as stmain.py calls them
\* ------------------------------------------------------------------------

\* st.session_state.rag_engine = None
NoEngine == [ vector_store |-> "None", temperature |-> 0, context_length |-> 0 ]

\* temperatures are in tenths: 7 is 0.7
default_temperature == 7

default_context_length == 3

\* RAGEngine(vector_store): a new engine on the store, with the default
\* settings
RAGEngine(vector_store) ==
    [ vector_store |-> vector_store,
      temperature |-> default_temperature,
      context_length |-> default_context_length ]

update_settings(engine, temperature, context_length) ==
    [ engine EXCEPT !.temperature = temperature,
                    !.context_length = context_length ]

\* the reply of the language model to a prompt: opaque, identified by the
\* question it answers
llm_reply(prompt) == << "answer", prompt >>

\* answer_question(prompt): retrieves the context_length most similar chunks
\* of the store (all of them when it holds fewer) and asks the language
\* model; llm_ok: whether that call succeeds
answer_question(engine, db, prompt, llm_ok) ==
    [ status |-> IF llm_ok THEN "ok" ELSE "Exception",
      response |-> IF llm_ok THEN llm_reply(prompt) ELSE <<>>,
      temperature |-> engine.temperature,
      context_length |-> engine.context_length,
      retrieved |-> Min(engine.context_length, Len(db)) ]

\* ------------------------------------------------------------------------
\* stmain.py: process_files and the handlers of one script run
\* ------------------------------------------------------------------------

\* the orders in which os.listdir may enumerate the names S
Orders(S) ==
    { o \in [ 1..Cardinality(S) -> S ] :
        \A i, j \in 1..Cardinality(S) : i # j => o[i] # o[j] }

FileNames(files) == { files[i].name : i \in 1..Len(files) }

\* the file that open(file_path, "wb") left under name: the last upload of
\* that name
SavedFile(files, name) ==
    LET hits == { i \in 1..Len(files) : files[i].name = name }
    IN  files[CHOOSE i \in hits : \A j \in hits : j <= i]

\* the fresh temporary data directory after the uploads are saved, as
\* os.listdir enumerates it
data_directory(files, order) ==
    [ exists |-> TRUE,
      files |-> [ i \in 1..Len(order) |-> SavedFile(files, order[i]) ] ]

\* initialise_engine with the counters written before the builder's result
\* is looked at
initialise_engine_counters_first(files, documents, built, engine, stats) ==
    [ status |-> IF built.status = "ok" THEN "ok" ELSE "raised",
      message |-> built.message,
      rag_engine |-> IF built.status = "ok" THEN RAGEngine("database")
                     ELSE engine,
      doc_stats |-> [ processed |-> Len(files), chunks |-> Len(documents) ],
      database |-> built.database,
      documents |-> IF built.status = "ok" THEN documents ELSE <<>> ]

\* lines 108-113: the engine on the new store and the document counters
initialise_engine(files, documents, built, engine, stats) ==
    IF built.status # "ok"
    THEN [ status |-> "raised", message |-> built.message,
           rag_engine |-> engine, doc_stats |-> stats,
           database |-> built.database, documents |-> <<>> ]
    ELSE [ status |-> "ok", message |-> "",
           rag_engine |-> RAGEngine("database"),
           doc_stats |-> [ processed |-> Len(files),
                           chunks |-> Len(documents) ],
           database |-> built.database,
           documents |-> documents ]

\* lines 105-106: the chunk list goes to the index builder
index_documents(files, loaded, embed_ok, engine, stats, db) ==
    IF loaded.status # "ok"
    THEN [ status |-> "raised", message |-> loaded.message,
           rag_engine |-> engine, doc_stats |-> stats,
           database |-> db, documents |-> <<>> ]
    ELSE initialise_engine(files, loaded.documents,
             create_vector_store(loaded.documents, db, embed_ok),
             engine, stats)

\* process_files(files): the session state it leaves, and whether it raised.
\* upload holds the files, the order in which os.listdir enumerates the data
\* directory, and what load_and_split_documents returns for it (line 105).
process_files(upload, embed_ok, engine, stats, db) ==
    index_documents(upload.files, upload.loaded, embed_ok, engine, stats, db)

Outcome(action, status) ==
    [ action |-> action, status |-> status, answer_called |-> FALSE,
      temperature |-> 0, context_length |-> 0, retrieved |-> 0,
      selected |-> 0 ]

\* chat_input with the "if st.session_state.rag_engine" check left out
chat_input_unguarded(prompt, llm_ok, engine, history, db) ==
    LET asked == Append(history, [ role |-> "user", content |-> prompt ])
        shown == [ Outcome("chat", "answered") EXCEPT !.answer_called = TRUE ]
    IN  IF llm_ok /\ engine # NoEngine
        THEN [ chat_history |->
                   Append(asked, [ role |-> "assistant",
                                   content |-> llm_reply(prompt) ]),
               outcome |-> shown ]
        ELSE [ chat_history |-> asked,
               outcome |-> [ shown EXCEPT !.status = "error" ] ]

\* chat_input with the user's turn appended only once the answer is there,
\* after it
chat_input_user_last(prompt, llm_ok, engine, history, db) ==
    IF engine # NoEngine /\ llm_ok
    THEN [ chat_history |->
               history \o << [ role |-> "assistant",
                               content |-> llm_reply(prompt) ],
                             [ role |-> "user", content |-> prompt ] >>,
           outcome |-> [ Outcome("chat", "answered") EXCEPT
                           !.answer_called = TRUE ] ]
    ELSE IF engine # NoEngine
    THEN [ chat_history |-> history,
           outcome |-> [ Outcome("chat", "error") EXCEPT
                           !.answer_called = TRUE ] ]
    ELSE [ chat_history |-> history,
           outcome |-> Outcome("chat", "Please upload documents first") ]

\* the chat input handler (lines 140-155): what it leaves in chat_history
\* and what it shows
chat_input(prompt, llm_ok, engine, history, db) ==
    IF engine # NoEngine
    THEN LET asked == Append(history, [ role |-> "user", content |-> prompt ])
             answer == answer_question(engine, db, prompt, llm_ok)
             shown == [ Outcome("chat", "answered") EXCEPT
                          !.answer_called = TRUE,
                          !.temperature = answer.temperature,
                          !.context_length = answer.context_length,
                          !.retrieved = answer.retrieved ]
         IN  IF answer.status = "ok"
             THEN [ chat_history |->
                        Append(asked, [ role |-> "assistant",
                                        content |-> answer.response ]),
                    outcome |-> shown ]
             ELSE [ chat_history |-> asked,
                    outcome |-> [ shown EXCEPT !.status = "error" ] ]
    ELSE [ chat_history |-> history,
           outcome |-> Outcome("chat", "Please upload documents first") ]

\* what the handler shows: "Processing complete!" or "Error occurred!"
shown_status(r) ==
    [ r EXCEPT !.status = IF r.status = "ok" THEN "complete" ELSE "error" ]

\* the "Process Documents" handler (lines 175-190): runs process_files and
\* shows its exception instead of letting it escape
process_documents(upload, embed_ok, engine, stats, db) ==
    shown_status(process_files(upload, embed_ok, engine, stats, db))

\* the "Save Settings" handler (lines 211-217)
save_settings(temperature, context_length, engine) ==
    IF engine # NoEngine
    THEN [ rag_engine |-> update_settings(engine, temperature, context_length),
           outcome |-> Outcome("save", "Settings updated!") ]
    ELSE [ rag_engine |-> engine, outcome |-> Outcome("save", "") ]

\* the "Clear Chat History" handler (lines 221-224)
clear_chat_history(history) == <<>>

\* ------------------------------------------------------------------------
\* Bounds and input sets
\* ------------------------------------------------------------------------

MaxBatch == 2      \* files in one upload batch

MaxStore == 3      \* chunks in the persisted collection

MaxHistory == 3    \* turns in chat_history

MaxTextLen == 6    \* characters of a text given to the splitter

MaxFiles == 2      \* files in a directory given to the loader

MaxDocs == 2       \* chunks given to create_vector_store

Txt(stem) == << stem, ".", "t", "x", "t" >>

Pdf(stem) == << stem, ".", "p", "d", "f" >>

File(name, text, fault) == [ name |-> name, text |-> text, fault |-> fault ]

\* the files a user uploads: a document of two chunks, one of one chunk,
\* and a PDF, which the loader passes over
UploadPool ==
    { File(Txt("a"), << "a", "b", " ", "c", "d", " ", "e", "f" >>, "none"),
      File(Txt("b"), << "a", "." >>, "none"),
      File(Pdf("c"), << "a", "b" >>, "none") }

AllOrders == UNION { Orders(S) : S \in SUBSET { f.name : f \in UploadPool } }

Batches == UNION { [ 1..n -> UploadPool ] : n \in 1..MaxBatch }

\* every upload batch with every enumeration order of its data directory,
\* and the loader's result on that directory
Uploads ==
    { [ files |-> files, order |-> order,
        loaded |-> load_and_split_documents(data_directory(files, order)) ] :
        << files, order >> \in
            { << f, o >> \in Batches \X AllOrders : o \in Orders(FileNames(f)) } }

Prompts == { "q1", "q2" }

Temperatures == { 2 }

ContextLengths == { 1, 5 }

NoSettings == [ clicked |-> FALSE, temperature |-> 0, context_length |-> 0 ]

Pending ==
    [ status |-> "pending", message |-> "", documents |-> <<>>,
      embed_calls |-> 0 ]

NoCall == [ op |-> "none" ]

\* ------------------------------------------------------------------------
\* The session: one action per handler of a script run
\* ------------------------------------------------------------------------

\* lines 72-78, with an empty "database" directory
Init ==
    /\ rag_engine = NoEngine
    /\ chat_history = <<>>
    /\ doc_stats = [ processed |-> 0, chunks |-> 0 ]
    /\ database = <<>>
    /\ outcome = Outcome("init", "")
    /\ last_documents = <<>>
    /\ saved_settings = NoSettings
    /\ arg = NoCall
    /\ ret = Pending

ProcessDocuments ==
    \E upload \in Uploads, embed_ok \in BOOLEAN :
        \E r \in { process_documents(upload, embed_ok,
                                     rag_engine, doc_stats, database) } :
            /\ Len(r.database) <= MaxStore
            /\ rag_engine' = r.rag_engine
            /\ doc_stats' = r.doc_stats
            /\ database' = r.database
            /\ outcome' = [ Outcome("process", r.status) EXCEPT
                               !.selected = Len(upload.files) ]
            /\ last_documents' = IF r.status = "complete" THEN r.documents
                                 ELSE last_documents
            /\ UNCHANGED << chat_history, saved_settings, arg, ret >>

ChatInput ==
    \E prompt \in Prompts, llm_ok \in BOOLEAN :
        LET r == chat_input(prompt, llm_ok, rag_engine, chat_history, database)
        IN  /\ Len(r.chat_history) <= MaxHistory
            /\ chat_history' = r.chat_history
            /\ outcome' = r.outcome
            /\ UNCHANGED << rag_engine, doc_stats, database, last_documents,
                            saved_settings, arg, ret >>

SaveSettings ==
    \E temperature \in Temperatures, context_length \in ContextLengths :
        LET r == save_settings(temperature, context_length, rag_engine)
        IN  /\ rag_engine' = r.rag_engine
            /\ outcome' = r.outcome
            /\ saved_settings' =
                  IF r.outcome.status = "Settings updated!"
                  THEN [ clicked |-> TRUE, temperature |-> temperature,
                         context_length |-> context_length ]
                  ELSE saved_settings
            /\ UNCHANGED << chat_history, doc_stats, database, last_documents,
                            arg, ret >>

ClearChatHistory ==
    /\ chat_history' = clear_chat_history(chat_history)
    /\ outcome' = Outcome("clear", "Chat history cleared!")
    /\ UNCHANGED << rag_engine, doc_stats, database, last_documents,
                    saved_settings, arg, ret >>

Next == ProcessDocuments \/ ChatInput \/ SaveSettings \/ ClearChatHistory

Spec == Init /\ [][Next]_vars

\* ------------------------------------------------------------------------
\* The library-level calls on their own: the input is drawn in the initial
\* state and one action applies the operation to it
\* ------------------------------------------------------------------------

Alphabet == { "a", ".", ",", " ", NL }

Texts == UNION { [ 1..n -> Alphabet ] : n \in 0..MaxTextLen }

SessionIdle ==
    /\ rag_engine = NoEngine
    /\ chat_history = <<>>
    /\ doc_stats = [ processed |-> 0, chunks |-> 0 ]
    /\ outcome = Outcome("init", "")
    /\ last_documents = <<>>
    /\ saved_settings = NoSettings

InitSplit ==
    /\ SessionIdle
    /\ database = <<>>
    /\ arg \in { [ op |-> "split_text", text |-> t ] : t \in Texts }
    /\ ret = Pending

SplitText ==
    /\ ret.status = "pending"
    /\ ret' = [ Pending EXCEPT !.status = "returned",
                               !.documents = split_text(arg.text) ]
    /\ UNCHANGED << session_vars, arg >>

NextSplit == SplitText

SpecSplit == InitSplit /\ [][NextSplit]_vars

\* the directories given to the loader
LoaderNames == { Txt("a"), Txt("b"), Pdf("c") }

LoaderTexts ==
    { <<>>, << " ", NL >>, << "a", "." >>,
      << "a", "b", " ", "c", "d", " ", "e", "f" >> }

LoaderFiles ==
    { File(n, t, f) : n \in LoaderNames, t \in LoaderTexts,
                      f \in { "none", "read" } }

Listings ==
    { l \in UNION { [ 1..n -> LoaderFiles ] : n \in 0..MaxFiles } :
        \A i, j \in 1..Len(l) : i # j => l[i].name # l[j].name }

Directories ==
    { [ exists |-> FALSE, files |-> <<>> ] }
    \cup { [ exists |-> TRUE, files |-> l ] : l \in Listings }

InitLoad ==
    /\ SessionIdle
    /\ database = <<>>
    /\ arg \in { [ op |-> "load_and_split_documents", dir |-> d ] :
                   d \in Directories }
    /\ ret = Pending

LoadAndSplit ==
    /\ ret.status = "pending"
    /\ \E r \in { load_and_split_documents(arg.dir) } :
          ret' = [ Pending EXCEPT !.status = r.status,
                                  !.message = r.message,
                                  !.documents = r.documents ]
    /\ UNCHANGED << session_vars, arg >>

NextLoad == LoadAndSplit

SpecLoad == InitLoad /\ [][NextLoad]_vars

\* the chunk sequences given to the index builder, and the contents of the
\* persisted collection it finds
Chunk(text, source) ==
    [ page_content |-> text, metadata |-> [ source |-> source ] ]

ChunkPool ==
    { Chunk(<< "a", "b" >>, Txt("a")), Chunk(<< "c", "d" >>, Txt("a")),
      Chunk(<< "a", "." >>, Txt("b")) }

ChunkLists == UNION { [ 1..n -> ChunkPool ] : n \in 0..MaxDocs }

InitIndex ==
    /\ SessionIdle
    /\ arg \in { [ op |-> "create_vector_store", documents |-> d,
                   db |-> db, embed_ok |-> e ] :
                   d \in ChunkLists, db \in ChunkLists, e \in BOOLEAN }
    /\ database = arg.db
    /\ ret = Pending

CreateVectorStore ==
    /\ ret.status = "pending"
    /\ \E r \in { create_vector_store(arg.documents, database, arg.embed_ok) } :
          /\ database' = r.database
          /\ ret' = [ Pending EXCEPT !.status = r.status,
                                     !.message = r.message,
                                     !.embed_calls = r.embed_calls ]
    /\ UNCHANGED << rag_engine, chat_history, doc_stats, outcome,
                    last_documents, saved_settings, arg >>

NextIndex == CreateVectorStore

SpecIndex == InitIndex /\ [][NextIndex]_vars

\* ------------------------------------------------------------------------
\* Properties
\* ------------------------------------------------------------------------

IsPrefix(s, t) == Len(s) <= Len(t) /\ SubSeq(t, 1, Len(s)) = s

\* the handler of the last script run showed an error
Failed == outcome.status = "error"

\* C1: a failed action (process_files raising while loading, splitting or
\* indexing; answer_question raising) is shown as an error and does not
\* escape its handler; the turns that were in the chat history are still
\* there, in place (a failed question leaves the user's own turn after
\* them, a failed upload leaves the history as it was), and the engine
\* handle, the document counters and the content of the store are those of
\* before.
C1_FailedActionKeepsState ==
    /\ [](outcome.status # "raised" /\ outcome.status # "Exception")
    /\ [][ Failed' =>
             /\ IsPrefix(chat_history, chat_history')
             /\ Len(chat_history') <= Len(chat_history) + 1
             /\ outcome'.action = "process" => chat_history' = chat_history
             /\ rag_engine' = rag_engine
             /\ doc_stats' = doc_stats
             /\ database' = database ]_vars

\* a failed upload in a session that has an engine, a store and a history
C1_Witness ==
    /\ Failed
    /\ outcome.action = "process"
    /\ rag_engine # NoEngine
    /\ database # <<>>
    /\ chat_history # <<>>

\* C2: the store the engine queries holds exactly the chunks of the most
\* recent successful batch, and a query with k retrieves min(k, number of
\* chunks of that batch) chunks.
C2_StoreIsLastBatch ==
    rag_engine # NoEngine =>
        /\ database = last_documents
        /\ outcome.status = "answered" =>
              outcome.retrieved =
                  Min(outcome.context_length, Len(last_documents))

\* C3: the values last saved (Save Settings answered "Settings updated!")
\* are the ones the next query uses.
C3_SavedSettingsUsed ==
    (outcome.status = "answered" /\ saved_settings.clicked) =>
        /\ outcome.temperature = saved_settings.temperature
        /\ outcome.context_length = saved_settings.context_length

\* the .txt files of a directory that read and are not blank
Readable(f) ==
    /\ endswith(f.name, << ".", "t", "x", "t" >>)
    /\ f.fault = "none"
    /\ strip(f.text) # <<>>

\* the chunks of documents that carry the source name
FromSource(documents, name) ==
    LET of_name(d) == d.metadata.source = name
    IN  SelectSeq(documents, of_name)

\* the place of the file called name in the listing
Place(files, name) == CHOOSE i \in 1..Len(files) : files[i].name = name

\* C4: a file that fails to read contributes no chunk and does not abort
\* the batch: every other readable, non-blank .txt file contributes all of
\* its chunks, tagged with its name, in enumeration order, and the call
\* fails only if no chunk at all was produced.
C4_PerFileFailureSkipsFile ==
    (ret.status # "pending" /\ arg.dir.exists) =>
        LET files == arg.dir.files
            docs == ret.documents
        IN  /\ ret.status = "ok" =>
                 /\ \A i \in 1..Len(files) :
                       FromSource(docs, files[i].name) =
                           IF Readable(files[i])
                           THEN split_documents(
                                    [ page_content |-> files[i].text,
                                      metadata |->
                                          [ source |-> files[i].name ] ])
                           ELSE <<>>
                 /\ \A i, j \in 1..Len(docs) :
                       i < j => Place(files, docs[i].metadata.source)
                                  <= Place(files, docs[j].metadata.source)
            /\ ret.status # "ok" =>
                 \A i \in 1..Len(files) : ~Readable(files[i])

\* a batch in which one .txt file failed to read and another was loaded
C4_Witness ==
    /\ ret.status = "ok"
    /\ \E i, j \in 1..Len(arg.dir.files) :
          /\ arg.dir.files[i].fault = "read"
          /\ endswith(arg.dir.files[i].name, << ".", "t", "x", "t" >>)
          /\ i < j
          /\ Readable(arg.dir.files[j])
          /\ Len(FromSource(ret.documents, arg.dir.files[j].name)) > 1

\* C5: in an existing directory, the call fails with "No valid documents
\* found ..." and returns nothing when no .txt file reads as non-blank
\* text, and returns a non-empty chunk list when one does.
C5_NoValidDocuments ==
    (ret.status # "pending" /\ arg.dir.exists) =>
        LET files == arg.dir.files
            some_readable == \E i \in 1..Len(files) : Readable(files[i])
        IN  /\ ~some_readable =>
                 /\ ret.status = "ValueError"
                 /\ ret.message =
                      "No valid documents found or all documents were empty"
                 /\ ret.documents = <<>>
            /\ some_readable =>
                 /\ ret.status = "ok"
                 /\ ret.documents # <<>>

\* a directory holding only a blank .txt file, an unreadable one or a PDF
C5_Witness ==
    /\ ret.status = "ValueError"
    /\ arg.dir.exists
    /\ Len(arg.dir.files) = MaxFiles
    /\ \E i \in 1..Len(arg.dir.files) :
          /\ endswith(arg.dir.files[i].name, << ".", "t", "x", "t" >>)
          /\ arg.dir.files[i].fault = "none"
          /\ arg.dir.files[i].text # <<>>

\* how many times chunk c occurs in the sequence s
Count(s, c) == Cardinality({ i \in 1..Len(s) : s[i] = c })

\* C6: an empty chunk sequence is refused with "No documents provided"
\* before the embedding model is called, and the persisted collection is
\* left as it was; a non-empty sequence that is indexed has every one of its
\* chunks inserted.
C6_EmptyRefusedElseInserted ==
    ret.status # "pending" =>
        /\ arg.documents = <<>> =>
              /\ ret.status = "ValueError"
              /\ ret.message = "No documents provided"
              /\ ret.embed_calls = 0
              /\ database = arg.db
        /\ arg.documents # <<>> =>
              /\ ret.status = IF arg.embed_ok THEN "ok" ELSE "Exception"
              /\ ret.status = "ok" =>
                    /\ Len(database) = Len(arg.db) + Len(arg.documents)
                    /\ \A c \in ChunkPool :
                          Count(database, c) =
                              Count(arg.db, c) + Count(arg.documents, c)
              /\ ret.status # "ok" => database = arg.db

\* an empty chunk sequence given to a builder whose collection is not empty
C6_Witness ==
    /\ ret.status = "ValueError"
    /\ arg.documents = <<>>
    /\ arg.db # <<>>

\* C7: while no batch has been indexed (rag_engine is None), no turn is in
\* the chat history, and a question is turned away with "Please upload
\* documents first" without answer_question (retrieval, language model)
\* being called.
C7_NoAnswerBeforeIndexing ==
    rag_engine = NoEngine =>
        /\ chat_history = <<>>
        /\ ~outcome.answer_called
        /\ outcome.retrieved = 0
        /\ outcome.action = "chat" =>
              outcome.status = "Please upload documents first"

\* a question asked before any batch was indexed
C7_Witness ==
    /\ rag_engine = NoEngine
    /\ outcome.action = "chat"
    /\ database = <<>>

SeparatorChars == { NL, ".", "!", "?", ",", " " }

\* the text has a run of more than n characters none of which is a
\* separator
HasUnitLongerThan(t, n) ==
    \E i \in 1..Len(t) :
        /\ i + n <= Len(t)
        /\ \A m \in i..(i + n) : t[m] \notin SeparatorChars

\* C8: no chunk is longer than chunk_size, except when the text has a
\* separator-free unit that is itself longer than chunk_size.
C8_ChunkLength ==
    ret.status = "returned" =>
        \A i \in 1..Len(ret.documents) :
            Len(ret.documents[i]) > chunk_size =>
                HasUnitLongerThan(arg.text, chunk_size)

\* a successful process_files has just run
Processed == outcome.action = "process" /\ outcome.status = "complete"

\* C9: rag_engine is set exactly when both document counters are positive,
\* and the three change only in a successful process_files, which sets the
\* engine, 'processed' to the number of uploaded files and 'chunks' to the
\* number of chunks the loader returned.
C9_EngineIffCounters ==
    /\ []( rag_engine # NoEngine <=>
             (doc_stats.processed > 0 /\ doc_stats.chunks > 0) )
    /\ [][ /\ ( \/ (rag_engine = NoEngine) # (rag_engine' = NoEngine)
                \/ doc_stats' # doc_stats ) => Processed'
           /\ Processed' =>
                /\ rag_engine' = RAGEngine("database")
                /\ doc_stats'.processed = outcome'.selected
                /\ doc_stats'.chunks = Len(last_documents')
                /\ outcome'.selected > 0
                /\ last_documents' # <<>> ]_vars

\* a batch of two uploads of which one gave chunks
C9_Witness ==
    /\ Processed
    /\ doc_stats.processed = MaxBatch
    /\ doc_stats.chunks = 1

\* C10: every assistant turn directly follows the user turn whose question
\* it answers; the history changes only by turns being appended to it or by
\* Clear Chat History, which empties it and leaves the engine and the
\* document counters alone.
C10_ChatHistoryLog ==
    /\ []( \A i \in 1..Len(chat_history) :
             chat_history[i].role = "assistant" =>
                /\ i > 1
                /\ chat_history[i - 1].role = "user"
                /\ chat_history[i].content =
                      llm_reply(chat_history[i - 1].content) )
    /\ [][ chat_history' # chat_history =>
             \/ /\ IsPrefix(chat_history, chat_history')
                /\ outcome'.action = "chat"
             \/ /\ chat_history' = <<>>
                /\ outcome'.action = "clear"
                /\ rag_engine' = rag_engine
                /\ doc_stats' = doc_stats ]_vars

\* a history with an unanswered question followed by an answered one
C10_Witness ==
    /\ Len(chat_history) = 3
    /\ chat_history[1].role = "user"
    /\ chat_history[2].role = "user"
    /\ chat_history[3].role = "assistant"
    /\ chat_history[1].content # chat_history[2].content

====
